---- MODULE Spec2Model ----
(***************************************************************************)
(* The webclaw command-line tool (the node script that starts at line 42   *)
(* of use-session-shortcuts.ts): argument dispatch, project                *)
(* initialisation with its safety guards, script forwarding and doctor,    *)
(* run against an abstract filesystem.                                     *)
(*                                                                         *)
(* A path is a sequence of names; the filesystem is the set of paths that  *)
(* exist.  A name of FileNames is a regular file, every other name a       *)
(* directory.  One behaviour is up to MaxRuns invocations of the CLI with  *)
(* the same argv from the same working directory.                          *)
(***************************************************************************)
EXTENDS Naturals, Sequences, FiniteSets, TLC

VARIABLES
    fs,            \* the paths that exist on disk
    argv,          \* process.argv.slice(2)
    pc,            \* position of the process
    exitCode,      \* exit status once pc = "exited"
    handler,       \* the handler main() dispatched to
    rawTarget,     \* initProject's rawTarget argument
    targetDir,     \* initProject: targetDir
    force,         \* initProject: force
    isCurrentDir,  \* initProject: isCurrentDir
    tempRoot,      \* initProject: tempRoot (<<>> before mkdtemp)
    child,         \* the arguments of the pending or last spawnSync
    cont,          \* where runCommand returns to
    result,        \* spawnSync's result for the last child
    ops,           \* history: the effects of this invocation, in order
    removed,       \* history: the paths this invocation unlinked
    fs0,           \* history: fs when this invocation started
    runs           \* history: invocations started so far

vars == <<fs, argv, pc, exitCode, handler, rawTarget, targetDir, force,
          isCurrentDir, tempRoot, child, cont, result, ops, removed, fs0, runs>>

-----------------------------------------------------------------------------
(* Bounds *)

MaxRuns == 2

-----------------------------------------------------------------------------
(* Paths and the filesystem primitives *)

Cwd == <<"p", "w">>
TmpDir == <<"tmp">>
TempNames == <<"webclaw-a", "webclaw-b", "webclaw-c", "webclaw-d">>

FileNames == {"package.json", "README.md", "main.ts", ".env.local", ".DS_Store",
              "dep.js", "pnpm-lock.yaml", "yarn.lock", "f", "g"}

Undefined == "<undefined>"
NoPath == <<>>

IsPrefix(a, b) == Len(a) <= Len(b) /\ SubSeq(b, 1, Len(a)) = a

Prefixes(p) == {SubSeq(p, 1, k) : k \in 1..Len(p)}

join(dir, name) == Append(dir, name)

existsSync(p, f) == p \in f

readdirSync(dir, f) == {p[Len(dir) + 1] : p \in {q \in f : IsPrefix(dir, q) /\ Len(q) = Len(dir) + 1}}

isDirectory(p) == p # <<>> /\ p[Len(p)] \notin FileNames

mkdirSync(p, f) == f \cup Prefixes(p)

Subtree(p, f) == {q \in f : IsPrefix(p, q)}

rmSync(p, f) == f \ Subtree(p, f)

copyFileSync(targetPath, f) == f \cup {targetPath}

\* path.resolve(base, raw) on the segments of raw
RECURSIVE resolve(_, _)
resolve(base, segs) ==
    IF segs = <<>> THEN base
    ELSE LET s == Head(segs)
             b == IF s = "." THEN base
                  ELSE IF s = ".." THEN SubSeq(base, 1, Len(base) - 1)
                  ELSE Append(base, s)
         IN resolve(b, Tail(segs))

\* the segments of each target token of the model
Segments(tok) ==
    CASE tok = "."    -> <<".">>
      [] tok = ".."   -> <<"..">>
      [] tok = "../o" -> <<"..", "o">>
      [] OTHER        -> <<tok>>

-----------------------------------------------------------------------------
(* The template repository, as a clone of it lands on disk *)

Template ==
    { <<".git">>, <<".git", "HEAD">>,
      <<"package.json">>, <<"README.md">>, <<".DS_Store">>, <<".env.local">>,
      <<"node_modules">>, <<"node_modules", "dep.js">>,
      <<".openclaw">>, <<".webclaw">>, <<".tanstack">>,
      <<"apps">>, <<"apps", "webclaw">>, <<"apps", "webclaw", "package.json">>,
      <<"apps", "webclaw", "main.ts">>, <<"apps", "webclaw", ".env.local">>,
      <<"apps", "webclaw", "node_modules">>,
      <<"apps", "webclaw", "node_modules", "dep.js">>,
      <<"apps", "webclaw", ".DS_Store">> }

ChildStatuses == {0, 1, 2, 128}

-----------------------------------------------------------------------------
(* Pure helpers of the CLI *)

startsWithDash(arg) == arg \in {"--force", "-h", "--help"}

Options(args) == {args[i] : i \in {j \in 1..Len(args) : startsWithDash(args[j])}}

Min(S) == CHOOSE x \in S : \A y \in S : x <= y

\* mutant: the last positional token is taken for the command
CommandLast(args) ==
    LET idx == {i \in 1..Len(args) : ~startsWithDash(args[i])}
    IN IF idx = {} THEN Undefined
       ELSE args[CHOOSE x \in idx : \A y \in idx : y <= x]

Command(args) ==
    LET idx == {i \in 1..Len(args) : ~startsWithDash(args[i])}
    IN IF idx = {} THEN Undefined ELSE args[Min(idx)]

InitTarget(args) ==
    LET idx == {i \in 1..Len(args) :
                    /\ ~startsWithDash(args[i])
                    /\ i > 1
                    /\ args[i - 1] = "init"}
    IN IF idx = {} THEN Undefined ELSE args[Min(idx)]

ForwardCommands == {"dev", "build", "preview", "test", "lint"}

\* mutant: the yarn lockfile is looked for first
detectPackageManagerYarnFirst(cwd, f) ==
    IF existsSync(join(cwd, "yarn.lock"), f) THEN "yarn"
    ELSE IF existsSync(join(cwd, "pnpm-lock.yaml"), f) THEN "pnpm"
    ELSE "npm"

detectPackageManager(cwd, f) ==
    IF existsSync(join(cwd, "pnpm-lock.yaml"), f) THEN "pnpm"
    ELSE IF existsSync(join(cwd, "yarn.lock"), f) THEN "yarn"
    ELSE "npm"

NotFound == [mode |-> "null", appDir |-> NoPath]

\* mutant: the working directory is taken for a project without looking
detectProjectRootAssumeSingle(cwd, f) ==
    LET appDir == join(join(cwd, "apps"), "webclaw")
    IN IF existsSync(join(appDir, "package.json"), f)
       THEN [mode |-> "monorepo", appDir |-> appDir]
       ELSE [mode |-> "single", appDir |-> cwd]

\* mutant: the root manifest is looked for first
detectProjectRootSingleFirst(cwd, f) ==
    LET appDir == join(join(cwd, "apps"), "webclaw")
    IN IF existsSync(join(cwd, "package.json"), f)
       THEN [mode |-> "single", appDir |-> cwd]
       ELSE IF existsSync(join(appDir, "package.json"), f)
       THEN [mode |-> "monorepo", appDir |-> appDir]
       ELSE NotFound

detectProjectRoot(cwd, f) ==
    LET appDir == join(join(cwd, "apps"), "webclaw")
    IN IF existsSync(join(appDir, "package.json"), f)
       THEN [mode |-> "monorepo", appDir |-> appDir]
       ELSE IF existsSync(join(cwd, "package.json"), f)
       THEN [mode |-> "single", appDir |-> cwd]
       ELSE NotFound

\* mutant: the existence test is inverted
ensureDirInverted(dir, f) == IF existsSync(dir, f) THEN mkdirSync(dir, f) ELSE f

ensureDir(dir, f) == IF ~existsSync(dir, f) THEN mkdirSync(dir, f) ELSE f

\* mutant: the local-env file is not skipped
CopySkipNoEnvLocal == {"node_modules", ".git", ".openclaw", ".webclaw",
                       ".tanstack", ".DS_Store"}

CopySkip == {"node_modules", ".git", ".env.local", ".openclaw", ".webclaw",
             ".tanstack", ".DS_Store"}

RECURSIVE copyDir(_, _, _)
RECURSIVE copyEntries(_, _, _, _)
copyEntries(entries, sourceDir, targetDir_, f) ==
    IF entries = {} THEN f
    ELSE LET e == CHOOSE x \in entries : TRUE
             sourcePath == join(sourceDir, e)
             targetPath == join(targetDir_, e)
             g == IF e \in CopySkip THEN f
                  ELSE IF isDirectory(sourcePath) THEN copyDir(sourcePath, targetPath, f)
                  ELSE copyFileSync(targetPath, f)
         IN copyEntries(entries \ {e}, sourceDir, targetDir_, g)

copyDir(sourceDir, targetDir_, f) ==
    copyEntries(readdirSync(sourceDir, f), sourceDir, targetDir_, ensureDir(targetDir_, f))

\* mutant: the filter keeps the ignorable entries instead of dropping them
isDirEmptyInvertedFilter(dir, f) ==
    IF ~existsSync(dir, f) THEN TRUE
    ELSE {file \in readdirSync(dir, f) : file = ".DS_Store" \/ file = ".git"} = {}

isDirEmpty(dir, f) ==
    IF ~existsSync(dir, f) THEN TRUE
    ELSE {file \in readdirSync(dir, f) : file # ".DS_Store" /\ file # ".git"} = {}

\* line 171
guardNotEmpty(frc, dir, f) == ~frc /\ ~isDirEmpty(dir, f)

\* mutant: a directory under version control is not protected
guardCurrentDirUnlessGit(frc, dir, cur, f) ==
    frc /\ ~isDirEmpty(dir, f) /\ cur /\ ~existsSync(join(dir, ".git"), f)

\* line 178
guardCurrentDir(frc, dir, cur, f) == frc /\ ~isDirEmpty(dir, f) /\ cur

\* line 185
shouldClear(frc, dir, cur, f) == frc /\ ~isDirEmpty(dir, f) /\ ~cur

\* mutant: the version-control check is forgotten
shouldMaterializeNoGitCheck(dir, f) == isDirEmpty(dir, f)

\* line 192
shouldMaterialize(dir, f) == ~existsSync(join(dir, ".git"), f) /\ isDirEmpty(dir, f)

\* mutant: the entries isDirEmpty ignores are both kept
clearTargetKeepIgnorable(dir, f) ==
    f \ UNION {Subtree(join(dir, entry), f) :
                 entry \in readdirSync(dir, f) \ {".git", ".DS_Store"}}

\* lines 186-189: every entry but .git is removed, recursively
clearTarget(dir, f) ==
    f \ UNION {Subtree(join(dir, entry), f) : entry \in readdirSync(dir, f) \ {".git"}}

mkdtempSync(f) ==
    LET free == {i \in 1..Len(TempNames) : ~existsSync(join(TmpDir, TempNames[i]), f)}
    IN join(TmpDir, TempNames[Min(free)])

-----------------------------------------------------------------------------
(* Initial states *)

Targets == {".", "..", "sub", "../o"}

ArgvSet ==
    { <<>>, <<"--force">>, <<"init">>, <<"init", "--force">>, <<"--force", "init">> }
    \cup UNION { { <<"init", x>>, <<"init", x, "--force">>,
                   <<"init", "--force", x>>, <<"--force", "init", x>> } : x \in Targets }
    \cup { <<c>> : c \in ForwardCommands }
    \cup { <<"doctor">>, <<"-h">>, <<"init", "sub", "--help">>, <<"bogus">>,
           <<"sub", "init">> }

Under(dir, rels) == {dir \o r : r \in rels}

\* what the working directory may hold when the CLI starts
CwdContents ==
    { Under(Cwd, S) : S \in SUBSET { <<".git">>, <<".DS_Store">>, <<"README.md">> } }
    \cup { Under(Cwd, UNION S) :
             S \in SUBSET { { <<"package.json">> }, { <<"pnpm-lock.yaml">> },
                            { <<"yarn.lock">> },
                            { <<"apps">>, <<"apps", "webclaw">>,
                              <<"apps", "webclaw", "package.json">> } } }

SubContents == { {}, Under(Cwd, { <<"sub">>, <<"sub", "f">> }) }

Other == <<"p", "o">>

OtherContents ==
    { {} } \cup
    { Under(Other, {<<>>} \cup S) :
        S \in { {}, { <<".DS_Store">> }, { <<".git">> }, { <<"f">> },
                { <<".git">>, <<"f">>, <<"d">>, <<"d", "g">> },
                { <<".DS_Store">>, <<"d">>, <<"d", "g">> } } }

NoChild == [command |-> "none", args |-> <<>>, dest |-> NoPath, cwd |-> NoPath]
NoResult == [error |-> FALSE, hasStatus |-> FALSE, status |-> 0]

Init ==
    /\ \E c \in CwdContents, s \in SubContents, o \in OtherContents :
         fs = { <<"p">>, Cwd, TmpDir } \cup c \cup s \cup o
    /\ argv \in ArgvSet
    /\ pc = "main"
    /\ exitCode = 0
    /\ handler = "none"
    /\ rawTarget = Undefined
    /\ targetDir = NoPath
    /\ force = FALSE
    /\ isCurrentDir = FALSE
    /\ tempRoot = NoPath
    /\ child = NoChild
    /\ cont = "none"
    /\ result = NoResult
    /\ ops = <<>>
    /\ removed = {}
    /\ fs0 = fs
    /\ runs = 1

-----------------------------------------------------------------------------
(* The child processes *)

Errored == [error |-> TRUE, hasStatus |-> FALSE, status |-> 0]
Signalled == [error |-> FALSE, hasStatus |-> FALSE, status |-> 0]
Exited(c) == [error |-> FALSE, hasStatus |-> TRUE, status |-> c]

\* git clone succeeds only into a missing or entirely empty directory
Cloneable(dest, f) == ~existsSync(dest, f) \/ readdirSync(dest, f) = {}

cloneInto(dest, f) == mkdirSync(dest, f) \cup Under(dest, Template)

\* what `git clone --depth 1 REPO_URL dest` may do: fail to spawn, exit
\* non-zero leaving nothing behind, exit 0 with the template on disk, or be
\* killed by a signal with nothing or a partial clone on disk
GitOutcomes(c, f) ==
    { [res |-> Errored, fs |-> f] }
    \cup (IF ~existsSync(c.cwd, f) THEN {}
          ELSE { [res |-> Exited(s), fs |-> f] : s \in ChildStatuses \ {0} }
               \cup { [res |-> Signalled, fs |-> f] }
               \cup (IF Cloneable(c.dest, f)
                     THEN { [res |-> Exited(0), fs |-> cloneInto(c.dest, f)],
                            [res |-> Signalled,
                             fs |-> mkdirSync(join(c.dest, ".git"), f)] }
                     ELSE {}))

\* what a forwarded package-manager script may do (its own writes are not modelled)
ScriptOutcomes(c, f) ==
    { [res |-> Errored, fs |-> f] }
    \cup (IF ~existsSync(c.cwd, f) THEN {}
          ELSE { [res |-> Exited(s), fs |-> f] : s \in ChildStatuses }
               \cup { [res |-> Signalled, fs |-> f] })

Outcomes(c, f) == IF c.command = "git" THEN GitOutcomes(c, f) ELSE ScriptOutcomes(c, f)

-----------------------------------------------------------------------------
(* The steps of the process *)

Op(o, a) == [op |-> o, arg |-> a]

initLocals == <<rawTarget, targetDir, force, isCurrentDir, tempRoot>>
history == <<removed, fs0, runs>>

\* mutant: every failure of a child becomes exit status 1
failureStatusOne(res) == 1

\* line 80: process.exit(result.status)
failureStatus(res) == res.status

\* process.exit(code), an uncaught exception (code 1) or main() returning (code 0)
exit(code) == pc' = "exited" /\ exitCode' = code

\* lines 234-278
main ==
    /\ pc = "main"
    /\ LET options == Options(argv)
           command == Command(argv)
       IN IF "-h" \in options \/ "--help" \in options
          THEN /\ handler' = "help"
               /\ ops' = Append(ops, Op("stdout", <<"help">>))
               /\ exit(0)
               /\ UNCHANGED rawTarget
          ELSE IF command = Undefined
          THEN /\ handler' = "init"
               /\ rawTarget' = "."
               /\ pc' = "initProject"
               /\ UNCHANGED <<ops, exitCode>>
          ELSE IF command = "init"
          THEN /\ handler' = "init"
               /\ rawTarget' = InitTarget(argv)
               /\ pc' = "initProject"
               /\ UNCHANGED <<ops, exitCode>>
          ELSE IF command = "doctor"
          THEN /\ handler' = "doctor"
               /\ pc' = "doctor"
               /\ UNCHANGED <<ops, exitCode, rawTarget>>
          ELSE IF command \in ForwardCommands
          THEN /\ handler' = "script"
               /\ pc' = "runProjectScript"
               /\ UNCHANGED <<ops, exitCode, rawTarget>>
          ELSE /\ handler' = "usage"
               /\ ops' = ops \o <<Op("stderr", <<"Unknown command">>), Op("stdout", <<"help">>)>>
               /\ exit(1)
               /\ UNCHANGED rawTarget
    /\ UNCHANGED <<fs, argv, targetDir, force, isCurrentDir, tempRoot, child, cont,
                   result, history>>

\* lines 165-190: resolve, ensureDir, the two guards, the forced clearing
initProject ==
    /\ pc = "initProject"
    /\ LET dir == resolve(Cwd, Segments(IF rawTarget = Undefined THEN "." ELSE rawTarget))
           frc == "--force" \in Options(argv)
           cur == dir = Cwd
           f1 == ensureDir(dir, fs)
           made == IF f1 = fs THEN <<>> ELSE <<Op("mkdir", dir)>>
       IN /\ targetDir' = dir
          /\ force' = frc
          /\ isCurrentDir' = cur
          /\ IF guardNotEmpty(frc, dir, f1)
             THEN /\ fs' = f1
                  /\ ops' = ops \o made \o <<Op("stderr", <<"not empty">>)>>
                  /\ exit(1)
                  /\ UNCHANGED removed
             ELSE IF guardCurrentDir(frc, dir, cur, f1)
             THEN /\ fs' = f1
                  /\ ops' = ops \o made \o <<Op("stderr", <<"Refusing">>)>>
                  /\ exit(1)
                  /\ UNCHANGED removed
             ELSE IF shouldClear(frc, dir, cur, f1)
             THEN /\ fs' = clearTarget(dir, f1)
                  /\ removed' = removed \cup (f1 \ clearTarget(dir, f1))
                  /\ ops' = ops \o made \o <<Op("rm", dir)>>
                  /\ pc' = "materialize"
                  /\ UNCHANGED exitCode
             ELSE /\ fs' = f1
                  /\ ops' = ops \o made
                  /\ pc' = "materialize"
                  /\ UNCHANGED <<exitCode, removed>>
    /\ UNCHANGED <<argv, handler, rawTarget, tempRoot, child, cont, result, fs0, runs>>

\* mutant: the staged clone is discarded without being copied
afterStagingCloneDiscard == "rmStaging"

\* lines 198-199: copyDir follows cloneRepo(tempCloneDir)
afterStagingClone == "copyDir"

gitClone(dest) ==
    [command |-> "git", args |-> <<"clone", "--depth", "1", "REPO_URL">>,
     dest |-> dest, cwd |-> Cwd]

\* lines 192-198: skip, clone into the target, or mkdtemp and clone into staging
materialize ==
    /\ pc = "materialize"
    /\ IF ~shouldMaterialize(targetDir, fs)
       THEN /\ pc' = "report"
            /\ UNCHANGED <<fs, tempRoot, child, cont, ops>>
       ELSE IF ~isCurrentDir
       THEN /\ child' = gitClone(targetDir)
            /\ cont' = "report"
            /\ pc' = "runCommand"
            /\ ops' = Append(ops, Op("spawn", targetDir))
            /\ UNCHANGED <<fs, tempRoot>>
       ELSE LET root == mkdtempSync(fs)
                tempCloneDir == join(root, "repo")
            IN /\ tempRoot' = root
               /\ fs' = fs \cup {root}
               /\ child' = gitClone(tempCloneDir)
               /\ cont' = afterStagingClone
               /\ pc' = "runCommand"
               /\ ops' = ops \o <<Op("mkdtemp", root), Op("spawn", tempCloneDir)>>
    /\ UNCHANGED <<argv, exitCode, handler, rawTarget, targetDir, force, isCurrentDir,
                   result, history>>

\* lines 70-82: the child runs to its end, then its result is examined
runCommand ==
    /\ pc = "runCommand"
    /\ \E o \in Outcomes(child, fs) :
         /\ fs' = o.fs
         /\ result' = o.res
         /\ IF o.res.error
            THEN exit(1)
            ELSE IF o.res.hasStatus /\ o.res.status # 0
            THEN exit(failureStatus(o.res))
            ELSE IF cont = "return"
            THEN exit(0)
            ELSE pc' = cont /\ UNCHANGED exitCode
    /\ UNCHANGED <<argv, handler, initLocals, child, cont, ops, history>>

\* line 199: copyDir(tempCloneDir, targetDir); readdirSync throws on a missing source
copyStaged ==
    /\ pc = "copyDir"
    /\ LET tempCloneDir == join(tempRoot, "repo")
       IN IF ~existsSync(tempCloneDir, fs)
          THEN /\ fs' = ensureDir(targetDir, fs)
               /\ exit(1)
               /\ UNCHANGED ops
          ELSE /\ fs' = copyDir(tempCloneDir, targetDir, fs)
               /\ ops' = Append(ops, Op("copy", targetDir))
               /\ pc' = "rmStaging"
               /\ UNCHANGED exitCode
    /\ UNCHANGED <<argv, handler, initLocals, child, cont, result, history>>

\* line 200
removeStaging ==
    /\ pc = "rmStaging"
    /\ fs' = rmSync(tempRoot, fs)
    /\ removed' = removed \cup Subtree(tempRoot, fs)
    /\ ops' = Append(ops, Op("rmtemp", tempRoot))
    /\ pc' = "report"
    /\ UNCHANGED <<argv, exitCode, handler, initLocals, child, cont, result, fs0, runs>>

\* lines 204-208, then main returns
report ==
    /\ pc = "report"
    /\ ops' = Append(ops, Op("stdout", <<"WebClaw project created at">> \o targetDir))
    /\ exit(0)
    /\ UNCHANGED <<fs, argv, handler, initLocals, child, cont, result, history>>

\* lines 103-124
runProjectScript ==
    /\ pc = "runProjectScript"
    /\ LET scriptName == Command(argv)
           detected == detectProjectRoot(Cwd, fs)
           packageManager == detectPackageManager(Cwd, fs)
       IN IF detected = NotFound
          THEN /\ ops' = Append(ops, Op("stderr", <<"No WebClaw project found">>))
               /\ exit(1)
               /\ UNCHANGED <<child, cont>>
          ELSE /\ child' =
                    IF detected.mode = "monorepo" /\ packageManager = "pnpm"
                    THEN [command |-> "pnpm", args |-> <<"-C", "apps/webclaw", scriptName>>,
                          dest |-> NoPath, cwd |-> Cwd]
                    ELSE [command |-> packageManager, args |-> <<"run", scriptName>>,
                          dest |-> NoPath, cwd |-> detected.appDir]
               /\ cont' = "return"
               /\ pc' = "runCommand"
               /\ ops' = Append(ops, Op("spawn", <<packageManager, scriptName>>))
               /\ UNCHANGED exitCode
    /\ UNCHANGED <<fs, argv, handler, initLocals, result, history>>

\* lines 211-232: the node version and pnpm's presence are the host's
doctor ==
    /\ pc = "doctor"
    /\ \E nodeOk \in BOOLEAN, hasPnpm \in BOOLEAN :
         LET issues == (IF nodeOk THEN <<>> ELSE <<Op("stderr", <<"Node.js >= 20 is required.">>)>>)
                       \o (IF hasPnpm THEN <<>> ELSE <<Op("stderr", <<"pnpm is recommended">>)>>)
         IN IF issues = <<>>
            THEN /\ ops' = Append(ops, Op("stdout", <<"Environment looks good.">>))
                 /\ exit(0)
            ELSE /\ ops' = ops \o issues
                 /\ exit(1)
    /\ UNCHANGED <<fs, argv, handler, initLocals, child, cont, result, history>>

\* line 280: the same command line is run again from the same directory,
\* which must still exist for a process to be started in it
rerun ==
    /\ pc = "exited"
    /\ runs < MaxRuns
    /\ existsSync(Cwd, fs)
    /\ runs' = runs + 1
    /\ pc' = "main"
    /\ exitCode' = 0
    /\ handler' = "none"
    /\ rawTarget' = Undefined
    /\ targetDir' = NoPath
    /\ force' = FALSE
    /\ isCurrentDir' = FALSE
    /\ tempRoot' = NoPath
    /\ child' = NoChild
    /\ cont' = "none"
    /\ result' = NoResult
    /\ ops' = <<>>
    /\ removed' = {}
    /\ fs0' = fs
    /\ UNCHANGED <<fs, argv>>

Next ==
    \/ main
    \/ initProject
    \/ materialize
    \/ runCommand
    \/ copyStaged
    \/ removeStaging
    \/ report
    \/ runProjectScript
    \/ doctor
    \/ rerun

Spec == Init /\ [][Next]_vars

-----------------------------------------------------------------------------
(* Vocabulary of the properties *)

EntriesAt(dir, f) == {p \in f : Len(p) = Len(dir) + 1 /\ IsPrefix(dir, p)}

NonEmptyAt(dir, f) == \E p \in EntriesAt(dir, f) : p[Len(p)] \notin {".git", ".DS_Store"}

OpsOf(kinds) == {i \in 1..Len(ops) : ops[i].op \in kinds}

WriteOps == {"mkdir", "rm", "mkdtemp", "spawn", "copy", "rmtemp"}

NoWrites == OpsOf(WriteOps) = {}

\* initProject has taken its decisions
InitRan == handler = "init" /\ pc \notin {"main", "initProject"}

InitExited == handler = "init" /\ pc = "exited"

Said(stream, msg) == \E i \in 1..Len(ops) : ops[i].op = stream /\ ops[i].arg = msg

Refused == Said("stderr", <<"not empty">>) \/ Said("stderr", <<"Refusing">>)

Reported == \E i \in 1..Len(ops) :
                ops[i].op = "stdout" /\ ops[i].arg = <<"WebClaw project created at">> \o targetDir

NoComponentIn(r, names) == \A i \in 1..Len(r) : r[i] \notin names

-----------------------------------------------------------------------------
(* C1..C10 *)

\* C1: init without --force into a directory that holds an entry other than
\* .git and .DS_Store goes no further than the guard: it exits 1, the
\* filesystem is what it was at the start and no write was attempted.
C1_NonEmptyWithoutForceRefuses ==
    (InitRan /\ ~force /\ NonEmptyAt(targetDir, fs0))
        => (pc = "exited" /\ exitCode = 1 /\ fs = fs0 /\ removed = {} /\ NoWrites)

C1_Witness ==
    /\ InitExited /\ ~force /\ NonEmptyAt(targetDir, fs0)
    /\ targetDir = <<"p", "o">>
    /\ Said("stderr", <<"not empty">>)

\* C2: init --force whose target resolves to the working directory, that
\* directory being non-empty, always refuses: exit 1, nothing removed, no
\* clone, no copy, filesystem unchanged, with or without .git.
C2_ForceOnCurrentDirRefuses ==
    (InitRan /\ force /\ targetDir = Cwd /\ NonEmptyAt(Cwd, fs0))
        => (pc = "exited" /\ exitCode = 1 /\ fs = fs0 /\ removed = {} /\ NoWrites)

C2_Witness ==
    /\ InitExited /\ force /\ targetDir = Cwd /\ NonEmptyAt(Cwd, fs0)
    /\ join(Cwd, ".git") \in fs0
    /\ Said("stderr", <<"Refusing">>)

\* C3: whatever the target argument and the flags, no file or directory that
\* existed at or inside the working directory when init started is removed.
C3_NothingInCwdRemoved ==
    handler = "init" => \A p \in removed : ~(IsPrefix(Cwd, p) /\ p \in fs0)

\* C4: init --force into a non-empty directory other than the working
\* directory removes every entry but .git (with all below it) before the
\* clone: from the clearing on, and while the clone is pending, the target
\* holds no entry other than .git.
C4_ForceClearsBeforeClone ==
    (InitRan /\ force /\ targetDir # Cwd /\ NonEmptyAt(targetDir, fs0))
        => /\ \A p \in fs0 :
                (IsPrefix(targetDir, p) /\ Len(p) > Len(targetDir)
                    /\ p[Len(targetDir) + 1] # ".git") => p \in removed
           /\ (pc \in {"materialize", "runCommand"}
                  => \A p \in EntriesAt(targetDir, fs) : p[Len(p)] = ".git")

C4_Witness ==
    /\ InitRan /\ force /\ targetDir = <<"p", "o">> /\ NonEmptyAt(targetDir, fs0)
    /\ <<"p", "o", ".DS_Store">> \in fs0
    /\ pc = "runCommand" /\ child.command = "git" /\ child.dest = targetDir
    /\ EntriesAt(targetDir, fs) = {}

\* C5 as stated: an init run on a target that already contains .git does no
\* clone and no copy, leaves the target's contents unchanged and exits 0.
C5_RerunIsNoOp ==
    (InitExited /\ join(targetDir, ".git") \in fs0)
        => /\ OpsOf({"spawn", "copy"}) = {}
           /\ Subtree(targetDir, fs) = Subtree(targetDir, fs0)
           /\ exitCode = 0

\* C5 amended: an init run on a target that already contains .git does no
\* clone and no copy; it leaves the filesystem unchanged and exits 0 when
\* the target holds nothing besides .git and .DS_Store; otherwise the guards
\* come first: without --force, or with --force on the working directory,
\* it exits 1 and changes nothing, and with --force elsewhere it removes
\* every entry but .git and exits 0.
C5_RerunSkipsMaterialization ==
    (InitExited /\ join(targetDir, ".git") \in fs0)
        => /\ OpsOf({"spawn", "copy", "mkdtemp"}) = {}
           /\ ~NonEmptyAt(targetDir, fs0) => (exitCode = 0 /\ fs = fs0)
           /\ (NonEmptyAt(targetDir, fs0) /\ (~force \/ targetDir = Cwd))
                  => (exitCode = 1 /\ fs = fs0)
           /\ (NonEmptyAt(targetDir, fs0) /\ force /\ targetDir # Cwd)
                  => (exitCode = 0 /\ EntriesAt(targetDir, fs) = {join(targetDir, ".git")})

C5_Witness ==
    /\ InitExited /\ runs = 2
    /\ join(targetDir, ".git") \in fs0 /\ ~NonEmptyAt(targetDir, fs0)
    /\ exitCode = 0 /\ Reported

\* C6: a staging directory that init created no longer exists when the
\* process has terminated, whatever the clone and the copy did.
C6_StagingGoneAtExit ==
    (InitExited /\ tempRoot # NoPath) => tempRoot \notin fs

\* the init run cloned with status 0 and ended with status 0
Materialized ==
    InitExited /\ exitCode = 0 /\ child.command = "git" /\ result = Exited(0)

ExcludedNamed == {".git", "node_modules", ".env.local", ".openclaw", ".webclaw", ".tanstack"}

C8_InitExitsZeroOrOne ==
    InitExited => exitCode \in {0, 1}

\* C8 amended: every init invocation ends with exit status 0, 1 or the
\* clone's own status: 1 when a guard refuses, 0 when the success report was
\* written, and exactly the clone's status whenever the clone exits
\* non-zero; no other status than 0 and 1 arises in any other way.
C8_InitExitStatus ==
    InitExited
        => /\ Refused => exitCode = 1
           /\ Reported => exitCode = 0
           /\ (result.hasStatus /\ result.status # 0) => exitCode = result.status
           /\ exitCode \notin {0, 1}
                  => (child.command = "git" /\ result.hasStatus
                        /\ exitCode = result.status)

C8_Witness ==
    /\ InitExited /\ exitCode = 128
    /\ child.command = "git" /\ result = Exited(128)

\* C9: a forwarded script that exits with a non-zero status c makes the CLI
\* exit with exactly c, and the spawn is the last thing the CLI did.
C9_ForwardedStatusPropagates ==
    (handler = "script" /\ pc = "exited" /\ result.hasStatus /\ result.status # 0)
        => /\ exitCode = result.status
           /\ Len(ops) > 0 /\ ops[Len(ops)].op = "spawn"
           /\ fs = fs0

C9_Witness ==
    /\ handler = "script" /\ pc = "exited" /\ argv = <<"lint">>
    /\ result = Exited(128) /\ exitCode = 128
    /\ child.command = "yarn"

\* C10: a forwarding command run where neither apps/webclaw/package.json nor
\* package.json exists exits 1 straight away: no child process of any kind
\* is spawned and the filesystem is untouched.
C10_NoProjectNoSpawn ==
    (handler = "script" /\ pc # "runProjectScript"
        /\ <<"p", "w", "apps", "webclaw", "package.json">> \notin fs0
        /\ <<"p", "w", "package.json">> \notin fs0)
        => /\ pc = "exited" /\ exitCode = 1
           /\ child = NoChild /\ NoWrites /\ fs = fs0
           /\ Said("stderr", <<"No WebClaw project found">>)

C10_Witness ==
    /\ handler = "script" /\ pc = "exited" /\ argv = <<"test">>
    /\ <<"p", "w", "apps", "webclaw", "package.json">> \notin fs0
    /\ <<"p", "w", "package.json">> \notin fs0
    /\ <<"p", "w", "pnpm-lock.yaml">> \in fs0
    /\ exitCode = 1

-----------------------------------------------------------------------------
(* C11..C20 *)

PnpmLock == <<"p", "w", "pnpm-lock.yaml">>
YarnLock == <<"p", "w", "yarn.lock">>
NestedManifest == <<"p", "w", "apps", "webclaw", "package.json">>
RootManifest == <<"p", "w", "package.json">>

\* runProjectScript has spawned the package manager
ScriptSpawned == handler = "script" /\ child # NoChild

\* C11: the package manager a forwarded script is run with is pnpm when
\* pnpm-lock.yaml is present (yarn.lock present or not), yarn when only
\* yarn.lock is present, and npm otherwise; there is always one.
C11_PackageManagerPrecedence ==
    ScriptSpawned
        => /\ child.command \in {"pnpm", "yarn", "npm"}
           /\ PnpmLock \in fs0 => child.command = "pnpm"
           /\ (PnpmLock \notin fs0 /\ YarnLock \in fs0) => child.command = "yarn"
           /\ (PnpmLock \notin fs0 /\ YarnLock \notin fs0) => child.command = "npm"

C11_Witness ==
    /\ ScriptSpawned /\ pc = "runCommand"
    /\ PnpmLock \in fs0 /\ YarnLock \in fs0
    /\ child.command = "pnpm"

\* C12: a forwarded script runs in the nested application (apps/webclaw,
\* reached by -C from the workspace root under pnpm, as the working directory
\* of the child otherwise) whenever apps/webclaw/package.json exists, in the
\* current directory when only package.json exists, and not at all when
\* neither exists.
C12_WorkspacePrecedence ==
    (handler = "script" /\ pc # "runProjectScript")
        => /\ NestedManifest \in fs0
                => /\ child # NoChild
                   /\ IF child.command = "pnpm"
                      THEN child.cwd = Cwd
                           /\ child.args = <<"-C", "apps/webclaw", Command(argv)>>
                      ELSE child.cwd = <<"p", "w", "apps", "webclaw">>
                           /\ child.args = <<"run", Command(argv)>>
           /\ (NestedManifest \notin fs0 /\ RootManifest \in fs0)
                => (child # NoChild /\ child.cwd = Cwd
                      /\ child.args = <<"run", Command(argv)>>)
           /\ (NestedManifest \notin fs0 /\ RootManifest \notin fs0)
                => child = NoChild

C12_Witness ==
    /\ handler = "script" /\ pc = "runCommand"
    /\ NestedManifest \in fs0 /\ RootManifest \in fs0
    /\ child.command = "yarn"
    /\ child.cwd = <<"p", "w", "apps", "webclaw">>

ProbedDirs == {Cwd, Other, <<"p", "w", "sub">>, <<"p">>, TmpDir, <<"p", "missing">>}

\* C13: for every directory D, isDirEmpty(D) is true exactly when D does not
\* exist or every entry of D is named .git or .DS_Store.
C13_EmptinessClassification ==
    \A dir \in ProbedDirs :
        isDirEmpty(dir, fs)
            <=> (dir \notin fs
                   \/ \A p \in EntriesAt(dir, fs) : p[Len(p)] \in {".git", ".DS_Store"})

C13_Witness ==
    /\ Other \notin fs /\ isDirEmpty(Other, fs)
    /\ ~isDirEmpty(<<"p">>, fs)
    /\ InitRan /\ targetDir = Cwd /\ pc = "runCommand"
    /\ EntriesAt(Cwd, fs) = {<<"p", "w", ".DS_Store">>}

-----------------------------------------------------------------------------

HasToken(t) == \E i \in 1..Len(argv) : argv[i] = t

IsPositional(a) == a \notin {"--force", "-h", "--help"}

Positionals == SelectSeq(argv, IsPositional)

ExpectedHandler ==
    IF HasToken("-h") \/ HasToken("--help") THEN "help"
    ELSE IF Positionals = <<>> THEN "init"
    ELSE IF Positionals[1] = "init" THEN "init"
    ELSE IF Positionals[1] = "doctor" THEN "doctor"
    ELSE IF Positionals[1] \in {"dev", "build", "preview", "test", "lint"} THEN "script"
    ELSE "usage"

\* C14: one invocation runs exactly one handler, the one argv selects: help
\* whenever -h or --help is present (nothing but the usage text, exit 0), init
\* of the working directory without a positional token, init, doctor, script
\* forwarding, or the usage error for any other first positional token (exit
\* 1); nothing of a handler that was not selected happens.
C14_ExactlyOneHandler ==
    pc # "main"
        => /\ handler = ExpectedHandler
           /\ handler = "help"
                => (pc = "exited" /\ exitCode = 0 /\ fs = fs0
                      /\ ops = <<Op("stdout", <<"help">>)>>)
           /\ handler = "usage"
                => (pc = "exited" /\ exitCode = 1 /\ fs = fs0
                      /\ ops = <<Op("stderr", <<"Unknown command">>),
                                 Op("stdout", <<"help">>)>>)
           /\ handler # "init"
                => (targetDir = NoPath /\ tempRoot = NoPath /\ removed = {}
                      /\ child.command # "git" /\ fs = fs0 /\ ~Refused
                      /\ OpsOf({"mkdir", "rm", "mkdtemp", "copy", "rmtemp"}) = {})
           /\ handler # "script"
                => (child.command \notin {"pnpm", "yarn", "npm"}
                      /\ ~Said("stderr", <<"No WebClaw project found">>))
           /\ handler # "doctor"
                => (~Said("stdout", <<"Environment looks good.">>)
                      /\ ~Said("stderr", <<"Node.js >= 20 is required.">>)
                      /\ ~Said("stderr", <<"pnpm is recommended">>))
           /\ (handler = "init" /\ Positionals = <<>> /\ InitRan) => targetDir = Cwd

C14_Witness ==
    /\ argv = <<"sub", "init">>
    /\ handler = "usage" /\ pc = "exited" /\ exitCode = 1
    /\ targetDir = NoPath /\ child = NoChild

\* C15: init of a path that does not exist and is not the working directory,
\* with or without --force, first creates the directory, is refused by
\* neither guard, invokes the clone exactly once with the target as its
\* destination (and never the staged copy), and when the clone exits 0
\* writes the success report naming the target and exits 0.
C15_MissingTargetIsCreatedAndCloned ==
    (InitRan /\ targetDir \notin fs0 /\ targetDir # Cwd)
        => /\ Len(ops) >= 1 /\ ops[1] = Op("mkdir", targetDir)
           /\ ~Refused /\ removed = {}
           /\ OpsOf({"mkdtemp", "copy", "rm"}) = {}
           /\ IF pc = "materialize"
              THEN OpsOf({"spawn"}) = {}
              ELSE /\ Cardinality(OpsOf({"spawn"})) = 1
                   /\ ops[2] = Op("spawn", targetDir)
                   /\ child.command = "git" /\ child.dest = targetDir
           /\ (pc = "exited" /\ result = Exited(0))
                => (Reported /\ exitCode = 0 /\ (targetDir \o <<"README.md">>) \in fs)
           /\ (pc = "report") => ~result.error /\ targetDir \in fs

C15_Witness ==
    /\ InitExited /\ targetDir = <<"p", "w", "sub">> /\ targetDir \notin fs0
    /\ force /\ result = Exited(0) /\ Reported /\ exitCode = 0

IsStagingOp(o) == o.op \in {"mkdtemp", "spawn", "copy", "rmtemp"}

StagingSteps == LET sel == SelectSeq(ops, IsStagingOp) IN [i \in 1..Len(sel) |-> sel[i].op]

\* C16: when the target is the working directory the clone never has the
\* target as its destination, and the steps come in the order mkdtemp, clone
\* into staging, copy from staging into the target, removal of staging: the
\* copy is made only after the clone has returned, from a staging directory
\* that still exists, and staging is removed only after the copy.
StagingOrderKept ==
    (InitRan /\ targetDir = Cwd)
        => /\ StagingSteps = SubSeq(<<"mkdtemp", "spawn", "copy", "rmtemp">>, 1, Len(StagingSteps))
           /\ child # NoChild
                => (child.dest = join(tempRoot, "repo") /\ child.dest # targetDir
                      /\ ~IsPrefix(targetDir, child.dest))
           /\ pc \in {"runCommand", "copyDir", "rmStaging"} => tempRoot \in fs
           /\ pc = "runCommand" => StagingSteps = <<"mkdtemp", "spawn">>
           /\ pc = "copyDir" => StagingSteps = <<"mkdtemp", "spawn">>
           /\ pc = "rmStaging" => StagingSteps = <<"mkdtemp", "spawn", "copy">>
           /\ (pc = "report" /\ child # NoChild)
                => (StagingSteps = <<"mkdtemp", "spawn", "copy", "rmtemp">>
                      /\ tempRoot \notin fs)

C16_StagingOrder ==
    /\ []StagingOrderKept
    /\ [][/\ pc' = "copyDir" => pc = "runCommand"
          /\ pc' = "rmStaging" => pc = "copyDir"
          /\ (pc = "runCommand" /\ child.command = "git") => child' = child]_vars

C16_Witness ==
    /\ InitRan /\ targetDir = Cwd /\ pc = "report"
    /\ StagingSteps = <<"mkdtemp", "spawn", "copy", "rmtemp">>
    /\ result = Exited(0)
    /\ <<"p", "w", "README.md">> \in fs

-----------------------------------------------------------------------------

\* the directory token that follows the command, "." when there is none
NamedDirectory == IF Len(Positionals) >= 2 THEN Positionals[2] ELSE "."

\* C17: the directory init works on is the one named by the positional token
\* after the command, wherever --force stands in argv, and the working
\* directory only when no such token is given.
C17_TargetIndependentOfFlagPlacement ==
    InitRan => targetDir = resolve(Cwd, Segments(NamedDirectory))

\* C18: when init has written the success report and exited 0, the target
\* holds at least one entry other than .git and .DS_Store.
C18_SuccessMeansPopulated ==
    (InitExited /\ exitCode = 0 /\ Reported) => NonEmptyAt(targetDir, fs)

\* C19: while a clone whose destination is the target itself is pending, the
\* target has no entry at all.
C19_CloneIntoTrulyEmpty ==
    (InitRan /\ pc = "runCommand" /\ child.command = "git" /\ child.dest = targetDir)
        => EntriesAt(targetDir, fs) = {}

\* C20: what follows an external command (the staged copy, the removal of
\* staging, the success report, exit status 0) happens only when the child
\* exited with status 0.
C20_NextStepOnlyAfterStatusZero ==
    (child # NoChild
        /\ (pc \in {"copyDir", "rmStaging", "report"} \/ (pc = "exited" /\ exitCode = 0)))
        => result = Exited(0)

====
